---- MODULE Spec2Model ----
(***************************************************************************)
(* A model of bin/probes/query_multi_fasta_table.py: the argparse pass     *)
(* with the SpecificCountsAction callback, the schema lookup, and the two  *)
(* report branches of main() (the cumulative histogram and the hits/misses *)
(* partition with its Counter of taxa).                                    *)
(***************************************************************************)
EXTENDS Integers, Sequences, FiniteSets, TLC

VARIABLES argv, argi, args_output, args_specific_counts,
          tableExists, columns, rows,
          pc, err, connected, mode, taxa, pos,
          counts, reported,
          c, total_loci, outf1, outf2, printed_c, printed_total

vars == <<argv, argi, args_output, args_specific_counts,
          tableExists, columns, rows,
          pc, err, connected, mode, taxa, pos,
          counts, reported,
          c, total_loci, outf1, outf2, printed_c, printed_total>>

\* ---------------------------------------------------------------- bounds
MaxArgs  == 2      \* optional command-line options given
MaxK     == 2      \* largest --specific-counts value
MaxTaxa  == 2      \* taxon columns of the table
MaxRows  == 3      \* rows of the table
MaxFlag  == 2      \* largest membership value stored in a cell

\* --------------------------------------------------------------- helpers
RECURSIVE SumSeq(_)
\* Python's sum() over a sequence of integers
SumSeq(s) == IF s = <<>> THEN 0 ELSE Head(s) + SumSeq(Tail(s))

Range(s) == {s[i] : i \in DOMAIN s}

\* occurrences of x in the sequence s
Occ(s, x) == Cardinality({i \in DOMAIN s : s[i] = x})

\* Python truthiness of an optional int (None and 0 are false)
TruthyInt(v) == v # <<>> /\ v[1] # 0

\* Python truthiness of an optional str (None and '' are false)
TruthyStr(v) == v # <<>> /\ v[1] # ""

\* ------------------------------------------------------ command line
OutputPath == "out.bed"

OutputOpt == [opt |-> "--output", path |-> OutputPath, k |-> 0]

CountsOpt(k) == [opt |-> "--specific-counts", path |-> "", k |-> k]

Options == {OutputOpt} \cup {CountsOpt(k) : k \in 0..MaxK}

ArgvSet == UNION {[1..n -> Options] : n \in 0..MaxArgs}

\* ------------------------------------------------------------ the table
TaxonPool == <<"A", "B", "C", "D">>

\* the column names of a table of n taxa
Schema(n) == <<"locus">> \o SubSeq(TaxonPool, 1, n)

RowSet(n) == [1..n -> 0..MaxFlag]

\* the contents of a table of n taxa: row i is (locus i, m_1 .. m_n)
TableSet(n) ==
    UNION {{[i \in 1..r |-> [id |-> i, flags |-> f[i]]] : f \in [1..r -> RowSet(n)]}
           : r \in 0..MaxRows}

NewFile == [state |-> "unopened", header |-> <<>>, body |-> <<>>]

Init ==
    /\ argv \in ArgvSet
    /\ argi = 1
    /\ args_output = <<>>
    /\ args_specific_counts = <<>>
    /\ \/ /\ tableExists = TRUE
          /\ \E n \in 0..MaxTaxa : columns = Schema(n)
       \/ /\ tableExists = FALSE
          /\ columns = <<>>
    /\ rows = <<>>
    /\ pc = "parse"
    /\ err = "none"
    /\ err = "none"
    /\ connected = FALSE
    /\ mode = "none"
    /\ taxa = <<>>
    /\ pos = 0
    /\ counts = <<>>
    /\ reported = <<>>
    /\ c = [x \in {} |-> 0]
    /\ total_loci = 0
    /\ outf1 = NewFile
    /\ outf2 = NewFile
    /\ printed_c = <<>>
    /\ printed_total = <<>>

\* ------------------------------------------------------------- get_args
\* argparse stores --output with the default store action
StoreOutput ==
    /\ pc = "parse"
    /\ err = "none"
    /\ argi <= Len(argv)
    /\ argv[argi].opt = "--output"
    /\ args_output' = <<argv[argi].path>>
    /\ argi' = argi + 1
    /\ UNCHANGED <<argv, args_specific_counts, tableExists, columns, rows,
                   pc, err, connected, mode, taxa, pos, counts, reported,
                   c, total_loci, outf1, outf2, printed_c, printed_total>>

\* the check made by the callback: the namespace as parsed so far
MissingOutput(specific_counts, output) ==
    TruthyInt(specific_counts) /\ ~TruthyStr(output)

\* SpecificCountsAction.__call__
SpecificCountsAction ==
    /\ pc = "parse"
    /\ err = "none"
    /\ argi <= Len(argv)
    /\ argv[argi].opt = "--specific-counts"
    /\ args_specific_counts' = <<argv[argi].k>>
    /\ IF MissingOutput(args_specific_counts', args_output)
         THEN /\ pc' = pc
              /\ err' = "parser.error"
              /\ argi' = argi
         ELSE /\ argi' = argi + 1
              /\ UNCHANGED <<pc, err>>
    /\ UNCHANGED <<argv, args_output, tableExists, columns, rows,
                   connected, mode, taxa, pos, counts, reported,
                   c, total_loci, outf1, outf2, printed_c, printed_total>>

\* parse_args() returns the namespace
ParseArgsReturn ==
    /\ pc = "parse"
    /\ err = "none"
    /\ argi > Len(argv)
    /\ pc' = "connect"
    /\ UNCHANGED <<argv, argi, args_output, args_specific_counts,
                   tableExists, columns, rows, err, connected, mode, taxa,
                   pos, counts, reported, c, total_loci, outf1, outf2,
                   printed_c, printed_total>>


\* ----------------------------------------------------------------- main
\* conn = sqlite3.connect(args.db); cur = conn.cursor()
Connect ==
    /\ pc = "connect"
    /\ err = "none"
    /\ connected' = TRUE
    /\ pc' = "table_info"
    /\ UNCHANGED <<argv, argi, args_output, args_specific_counts,
                   tableExists, columns, rows, err, mode, taxa,
                   pos, counts, reported, c, total_loci, outf1, outf2,
                   printed_c, printed_total>>

\* Python's values[1:], which is [] on an empty list
Slice1(values) == IF values = <<>> THEN <<>> ELSE Tail(values)

\* PRAGMA table_info(t) yields one record per column, none for a missing table
TableInfo ==
    /\ pc = "table_info"
    /\ err = "none"
    /\ taxa' = Slice1(columns)
    /\ pc' = "branch"
    /\ UNCHANGED <<argv, argi, args_output, args_specific_counts,
                   tableExists, columns, rows, err, connected, mode,
                   pos, counts, reported, c, total_loci, outf1, outf2,
                   printed_c, printed_total>>

\* numpy.zeros(n)
Zeros(n) == [i \in 1..n |-> 0]

\* if not args.specific_counts: ... counts = numpy.zeros(len(taxa) + 1)
HistogramBranch ==
    /\ pc = "branch"
    /\ err = "none"
    /\ ~TruthyInt(args_specific_counts)
    /\ mode' = "A"
    /\ counts' = Zeros(Len(taxa) + 1)
    /\ pc' = "A_execute"
    /\ UNCHANGED <<argv, argi, args_output, args_specific_counts,
                   tableExists, columns, rows, err, connected, taxa,
                   pos, reported, c, total_loci, outf1, outf2,
                   printed_c, printed_total>>

\* cur.execute("SELECT * FROM t") of the histogram branch: the rows of the
\* table are the result set, a missing table raises
HistogramExecute ==
    /\ pc = "A_execute"
    /\ err = "none"
    /\ IF tableExists
         THEN /\ rows' \in TableSet(Len(columns) - 1)
              /\ pc' = "A_loop"
              /\ UNCHANGED err
         ELSE /\ pc' = pc
              /\ err' = "OperationalError"
              /\ UNCHANGED rows
    /\ UNCHANGED <<argv, argi, args_output, args_specific_counts,
                   tableExists, columns, connected, mode, taxa,
                   pos, counts, reported, c, total_loci, outf1, outf2,
                   printed_c, printed_total>>

\* numpy accepts an index in -len .. len-1
IndexInRange(a, ss) == ss < Len(a) /\ ss >= 0 - Len(a)

\* position (1-based) of a[ss]
IndexOf(a, ss) == IF ss < 0 THEN ss + Len(a) + 1 ELSE ss + 1

Increment_assign(a, ss) == [a EXCEPT ![IndexOf(a, ss)] = 1]

\* counts[ss] += 1
Increment(a, ss) == [a EXCEPT ![IndexOf(a, ss)] = @ + 1]

HistogramRow_skip ==
    /\ pc = "A_loop"
    /\ err = "none"
    /\ pos < Len(rows)
    /\ LET ss == SumSeq(rows[pos + 1].flags) IN
         /\ counts' = IF IndexInRange(counts, ss) THEN Increment(counts, ss)
                                                  ELSE counts
         /\ pos' = pos + 1
         /\ UNCHANGED <<pc, err>>
    /\ UNCHANGED <<argv, argi, args_output, args_specific_counts,
                   tableExists, columns, rows, connected, mode, taxa,
                   reported, c, total_loci, outf1, outf2,
                   printed_c, printed_total>>

\* one pass of: ss = sum(row[1:]); counts[ss] += 1
HistogramRow ==
    /\ pc = "A_loop"
    /\ err = "none"
    /\ pos < Len(rows)
    /\ LET ss == SumSeq(rows[pos + 1].flags) IN
         IF IndexInRange(counts, ss)
           THEN /\ counts' = Increment(counts, ss)
                /\ pos' = pos + 1
                /\ UNCHANGED <<pc, err>>
           ELSE /\ pc' = pc
                /\ err' = "IndexError"
                /\ UNCHANGED <<counts, pos>>
    /\ UNCHANGED <<argv, argi, args_output, args_specific_counts,
                   tableExists, columns, rows, connected, mode, taxa,
                   reported, c, total_loci, outf1, outf2,
                   printed_c, printed_total>>

CumulativeCount_raw(a, i) == a[i + 1]

\* sum(counts[i:])
CumulativeCount(a, i) == SumSeq(SubSeq(a, i + 1, Len(a)))

\* for i in xrange(len(taxa) + 1): print ... i, sum(counts[i:])
HistogramPrint ==
    /\ pc = "A_loop"
    /\ err = "none"
    /\ pos = Len(rows)
    /\ reported' = [n \in 1..(Len(taxa) + 1) |->
                       [i |-> n - 1, count |-> CumulativeCount(counts, n - 1)]]
    /\ pc' = "done"
    /\ UNCHANGED <<argv, argi, args_output, args_specific_counts,
                   tableExists, columns, rows, err, connected, mode, taxa,
                   pos, counts, c, total_loci, outf1, outf2,
                   printed_c, printed_total>>

\* ------------------------------------------------- Counter of taxa
\* Counter(row_taxa): occurrences of every element of the list
CounterOf(s) == [x \in Range(s) |-> Occ(s, x)]

\* c[x] of a Counter, 0 for a missing key
CounterGet(cn, x) == IF x \in DOMAIN cn THEN cn[x] ELSE 0

\* Counter.__add__: the sum, keeping the positive counts only
CounterAdd(a, b) ==
    [x \in {y \in DOMAIN a \cup DOMAIN b : CounterGet(a, y) + CounterGet(b, y) > 0}
        |-> CounterGet(a, x) + CounterGet(b, x)]

RECURSIVE RowTaxaFrom_any(_, _, _)
RowTaxaFrom_any(names, flags, i) ==
    IF i > Len(flags) THEN <<>>
    ELSE (IF flags[i] >= 1 THEN <<names[i]>> ELSE <<>>)
         \o RowTaxaFrom_any(names, flags, i + 1)

RowTaxa_any(names, flags) == RowTaxaFrom_any(names, flags, 1)

RECURSIVE RowTaxaFrom(_, _, _)
RowTaxaFrom(names, flags, i) ==
    IF i > Len(flags) THEN <<>>
    ELSE (IF flags[i] = 1 THEN <<names[i]>> ELSE <<>>)
         \o RowTaxaFrom(names, flags, i + 1)

\* [taxa[i] for i,j in enumerate(row[1:]) if j == 1]
RowTaxa(names, flags) == RowTaxaFrom(names, flags, 1)

IsHit_strict(taxon_count, k) == taxon_count > k

\* if taxon_count >= args.specific_counts
IsHit(taxon_count, k) == taxon_count >= k

\* ------------------------------------------------------ output files
HeaderLine(text, k, names) == [text |-> text, k |-> k, names |-> names]

\* the three lines written to outf1 before the loop
HitsHeader(k, names) ==
    << HeaderLine("# Hits against {} taxa", k, <<>>),
       HeaderLine("# {}", 0, names),
       HeaderLine("[hits]", 0, <<>>) >>

\* the two lines written to outf2 before the loop
MissesHeader(names) ==
    << HeaderLine("# {}", 0, names),
       HeaderLine("[misses]", 0, <<>>) >>

\* "{}\t{}\n".format(row[0], taxon_count, ...): the third argument is unused
MissLine(id, taxon_count) == [id |-> id, taxon_count |-> taxon_count]

Opened(f) == [state |-> "open", header |-> <<>>, body |-> <<>>]

Closed_leak(f) == f

\* leaving a with block closes its file, also when it is left by an exception
Closed(f) == IF f.state = "open" THEN [f EXCEPT !.state = "closed"] ELSE f

\* --------------------------------------------------- partition branch
\* else: ... c = Counter(); total_loci = 0
PartitionBranch ==
    /\ pc = "branch"
    /\ err = "none"
    /\ TruthyInt(args_specific_counts)
    /\ mode' = "B"
    /\ c' = CounterOf(<<>>)
    /\ total_loci' = 0
    /\ pc' = "B_open1"
    /\ UNCHANGED <<argv, argi, args_output, args_specific_counts,
                   tableExists, columns, rows, err, connected, taxa,
                   pos, counts, reported, outf1, outf2,
                   printed_c, printed_total>>

\* with open(args.output, 'w') as outf1
OpenHits ==
    /\ pc = "B_open1"
    /\ err = "none"
    /\ \E ok \in BOOLEAN :
         IF ok THEN /\ outf1' = Opened(outf1)
                    /\ pc' = "B_header1"
                    /\ UNCHANGED err
               ELSE /\ pc' = pc
                    /\ err' = "IOError"
                    /\ UNCHANGED outf1
    /\ UNCHANGED <<argv, argi, args_output, args_specific_counts,
                   tableExists, columns, rows, connected, mode, taxa,
                   pos, counts, reported, c, total_loci, outf2,
                   printed_c, printed_total>>

\* the three outf1.write calls; a failing write leaves the lines before it
WriteHitsHeader ==
    /\ pc = "B_header1"
    /\ err = "none"
    /\ LET h == HitsHeader(args_specific_counts[1], taxa) IN
       \E n \in 0..Len(h) :
         IF n = Len(h)
           THEN /\ outf1' = [outf1 EXCEPT !.header = h]
                /\ pc' = "B_open2"
                /\ UNCHANGED err
           ELSE /\ outf1' = Closed([outf1 EXCEPT !.header = SubSeq(h, 1, n)])
                /\ pc' = pc
                /\ err' = "IOError"
    /\ UNCHANGED <<argv, argi, args_output, args_specific_counts,
                   tableExists, columns, rows, connected, mode, taxa,
                   pos, counts, reported, c, total_loci, outf2,
                   printed_c, printed_total>>

\* with open("{}.missing.matrix".format(args.output), 'w') as outf2
OpenMisses ==
    /\ pc = "B_open2"
    /\ err = "none"
    /\ \E ok \in BOOLEAN :
         IF ok THEN /\ outf2' = Opened(outf2)
                    /\ pc' = "B_header2"
                    /\ UNCHANGED <<err, outf1>>
               ELSE /\ pc' = pc
                    /\ err' = "IOError"
                    /\ outf1' = Closed(outf1)
                    /\ UNCHANGED outf2
    /\ UNCHANGED <<argv, argi, args_output, args_specific_counts,
                   tableExists, columns, rows, connected, mode, taxa,
                   pos, counts, reported, c, total_loci,
                   printed_c, printed_total>>

\* the two outf2.write calls
WriteMissesHeader ==
    /\ pc = "B_header2"
    /\ err = "none"
    /\ LET h == MissesHeader(taxa) IN
       \E n \in 0..Len(h) :
         IF n = Len(h)
           THEN /\ outf2' = [outf2 EXCEPT !.header = h]
                /\ pc' = "B_execute"
                /\ UNCHANGED <<err, outf1>>
           ELSE /\ outf2' = Closed([outf2 EXCEPT !.header = SubSeq(h, 1, n)])
                /\ outf1' = Closed(outf1)
                /\ pc' = pc
                /\ err' = "IOError"
    /\ UNCHANGED <<argv, argi, args_output, args_specific_counts,
                   tableExists, columns, rows, connected, mode, taxa,
                   pos, counts, reported, c, total_loci,
                   printed_c, printed_total>>

\* cur.execute("SELECT * FROM t") of the partition branch, inside both withs
PartitionExecute ==
    /\ pc = "B_execute"
    /\ err = "none"
    /\ IF tableExists
         THEN /\ rows' \in TableSet(Len(columns) - 1)
              /\ pc' = "B_loop"
              /\ UNCHANGED <<err, outf1, outf2>>
         ELSE /\ pc' = pc
              /\ err' = "OperationalError"
              /\ outf1' = Closed(outf1)
              /\ outf2' = Closed(outf2)
              /\ UNCHANGED rows
    /\ UNCHANGED <<argv, argi, args_output, args_specific_counts,
                   tableExists, columns, connected, mode, taxa,
                   pos, counts, reported, c, total_loci,
                   printed_c, printed_total>>

\* one pass of the loop body; ok = FALSE is a write that raises
PartitionRow ==
    /\ pc = "B_loop"
    /\ err = "none"
    /\ pos < Len(rows)
    /\ LET row == rows[pos + 1]
           taxon_count == SumSeq(row.flags)
           hit == IsHit(taxon_count, args_specific_counts[1])
       IN
       /\ IF hit
            THEN /\ c' = CounterAdd(c, CounterOf(RowTaxa(taxa, row.flags)))
                 /\ total_loci' = total_loci + 1
            ELSE UNCHANGED <<c, total_loci>>
       /\ \E ok \in BOOLEAN :
            IF ok
              THEN /\ outf1' = IF hit THEN [outf1 EXCEPT !.body = Append(@, row.id)]
                                      ELSE outf1
                   /\ outf2' = IF hit THEN outf2
                                      ELSE [outf2 EXCEPT !.body =
                                              Append(@, MissLine(row.id, taxon_count))]
                   /\ pos' = pos + 1
                   /\ UNCHANGED <<pc, err>>
              ELSE /\ outf1' = Closed(outf1)
                   /\ outf2' = Closed(outf2)
                   /\ pc' = pc
                   /\ err' = "IOError"
                   /\ UNCHANGED pos
    /\ UNCHANGED <<argv, argi, args_output, args_specific_counts,
                   tableExists, columns, rows, connected, mode, taxa,
                   counts, reported, printed_c, printed_total>>

\* the row source is exhausted: both with blocks are left
PartitionClose ==
    /\ pc = "B_loop"
    /\ err = "none"
    /\ pos = Len(rows)
    /\ outf2' = Closed(outf2)
    /\ outf1' = Closed(outf1)
    /\ pc' = "B_print"
    /\ UNCHANGED <<argv, argi, args_output, args_specific_counts,
                   tableExists, columns, rows, err, connected, mode, taxa,
                   pos, counts, reported, c, total_loci,
                   printed_c, printed_total>>

\* print c; print "Total loci = {}".format(total_loci)
PartitionPrint ==
    /\ pc = "B_print"
    /\ err = "none"
    /\ printed_c' = <<c>>
    /\ printed_total' = <<total_loci>>
    /\ pc' = "done"
    /\ UNCHANGED <<argv, argi, args_output, args_specific_counts,
                   tableExists, columns, rows, err, connected, mode, taxa,
                   pos, counts, reported, c, total_loci, outf1, outf2>>

Next ==
    \/ StoreOutput
    \/ SpecificCountsAction
    \/ ParseArgsReturn
    \/ Connect
    \/ TableInfo
    \/ HistogramBranch
    \/ HistogramExecute
    \/ HistogramRow
    \/ HistogramPrint
    \/ PartitionBranch
    \/ OpenHits
    \/ WriteHitsHeader
    \/ OpenMisses
    \/ WriteMissesHeader
    \/ PartitionExecute
    \/ PartitionRow
    \/ PartitionClose
    \/ PartitionPrint

Spec == Init /\ [][Next]_vars

\* ------------------------------------------------------- properties
Terminated == pc = "done" \/ err # "none"

\* the threshold of the run
K == args_specific_counts[1]

\* the number of taxon columns of the table
T == Len(Slice1(columns))

HasCounts == \E i \in DOMAIN argv : argv[i].opt = "--specific-counts"

HasOutput == \E i \in DOMAIN argv : argv[i].opt = "--output"

MissIds == [i \in DOMAIN outf2.body |-> outf2.body[i].id]

Qualifies(row) == SumSeq(row.flags) >= K

\* C1: after the full pass of the partition branch every locus id is once in
\* the hits body or once in the misses body and never in both, it is a hit
\* exactly when its flags sum to at least K, and the printed total is the
\* number of lines under [hits].
C1_PartitionComplete ==
    (mode = "B" /\ pc \in {"B_print", "done"}) =>
        /\ \A n \in DOMAIN rows :
              /\ Occ(outf1.body, rows[n].id) + Occ(MissIds, rows[n].id) = 1
              /\ (Occ(outf1.body, rows[n].id) = 1 <=> Qualifies(rows[n]))
        /\ Len(outf1.body) + Len(outf2.body) = Len(rows)
        /\ total_loci = Len(outf1.body)
        /\ (pc = "done" => printed_total = <<Len(outf1.body)>>)

C1_Witness ==
    /\ mode = "B" /\ pc = "done"
    /\ Len(outf1.body) >= 1 /\ Len(outf2.body) >= 1
    /\ \E n \in DOMAIN rows : SumSeq(rows[n].flags) = K

\* C2: after the full pass of the partition branch the count printed for a
\* taxon is the number of qualifying rows whose flag in that taxon's column
\* is exactly 1; other rows and other flag values add nothing, and no other
\* key is counted.
C2_TaxonHitCounter ==
    (mode = "B" /\ pc = "done") =>
        /\ \A x \in DOMAIN taxa :
              CounterGet(printed_c[1], taxa[x]) =
                 Cardinality({n \in DOMAIN rows :
                                 Qualifies(rows[n]) /\ rows[n].flags[x] = 1})
        /\ DOMAIN printed_c[1] \subseteq Range(taxa)

C2_Witness ==
    /\ mode = "B" /\ pc = "done"
    /\ \E n \in DOMAIN rows : \E x \in DOMAIN taxa :
          Qualifies(rows[n]) /\ rows[n].flags[x] > 1
    /\ \E n \in DOMAIN rows : \E x \in DOMAIN taxa :
          ~Qualifies(rows[n]) /\ rows[n].flags[x] = 1
    /\ \E x \in DOMAIN taxa : CounterGet(printed_c[1], taxa[x]) >= 1

\* C3: the histogram branch reports T+1 values, for i = 0..T in increasing
\* order, and the value for i is the number of rows whose flags sum to at
\* least i.
C3_SuffixSums ==
    (mode = "A" /\ pc = "done") =>
        /\ Len(reported) = T + 1
        /\ \A n \in DOMAIN reported :
              /\ reported[n].i = n - 1
              /\ reported[n].count =
                    Cardinality({r \in DOMAIN rows : SumSeq(rows[r].flags) >= n - 1})

C3_Witness ==
    /\ mode = "A" /\ pc = "done" /\ T >= 1
    /\ \E n \in DOMAIN reported : reported[n].count # counts[n]

\* C4: in the histogram branch the accumulator has T+1 entries that sum to
\* the number of rows processed so far, and the count reported for
\* threshold 0 is the number of rows of the table.
C4_HistogramSum ==
    (mode = "A") =>
        /\ Len(counts) = T + 1
        /\ SumSeq(counts) = pos
        /\ (pc = "done" => reported[1].count = Len(rows))

C4_Witness ==
    /\ mode = "A" /\ pc = "done" /\ Len(rows) >= 2
    /\ \E n \in DOMAIN counts : counts[n] >= 2

\* C5: a supplied threshold, 0 included, runs the partition branch and never
\* the histogram branch; no threshold runs the histogram branch and never
\* the partition branch.
C5_ModeBySupply ==
    /\ (mode = "A" => args_specific_counts = <<>>)
    /\ (mode = "B" => args_specific_counts # <<>>)
    /\ (mode = "A" => outf1.state = "unopened" /\ outf2.state = "unopened"
                      /\ printed_c = <<>> /\ printed_total = <<>>)
    /\ (mode = "B" => reported = <<>>)

\* C6: a threshold supplied with no output path ends in the parser's error,
\* before the connection is opened and before any query or row.
C6_ThresholdNeedsOutput ==
    (HasCounts /\ ~HasOutput) =>
        /\ pc = "parse"
        /\ ~connected
        /\ pos = 0
        /\ (argi > Len(argv) => err = "parser.error")

\* C7: with a missing table the run ends in an error before any row is read
\* and before any output happens: neither file of the partition branch is
\* ever opened or written.
C7_MissingTableBeforeIO ==
    (~tableExists) =>
        /\ pos = 0
        /\ pc # "done"
        /\ outf1 = NewFile
        /\ outf2 = NewFile
        /\ reported = <<>>

WellFormed(r) == SumSeq(rows[r].flags) <= T

\* C8 as stated: in the histogram branch a row whose flags sum above T is
\* skipped, the pass goes on, and the run ends normally with the T+1
\* cumulative counts of the remaining rows.
C8_OverflowRowSkipped ==
    (mode = "A" /\ tableExists /\ Terminated) =>
        /\ pc = "done"
        /\ err = "none"
        /\ Len(reported) = T + 1
        /\ \A n \in DOMAIN reported :
              reported[n].count =
                 Cardinality({r \in DOMAIN rows :
                                 WellFormed(r) /\ SumSeq(rows[r].flags) >= n - 1})

\* C8 amended: in the histogram branch a row whose flags sum above T is
\* fatal: the run stops at the first such row with an IndexError, that row
\* increments no entry, the rows after it are not processed and no
\* cumulative count is reported.
C8_OverflowRowAborts ==
    (mode = "A" /\ tableExists /\ Terminated /\ \E r \in DOMAIN rows : ~WellFormed(r)) =>
        /\ err = "IndexError"
        /\ pc = "A_loop"
        /\ pos < Len(rows)
        /\ ~WellFormed(pos + 1)
        /\ \A r \in 1..pos : WellFormed(r)
        /\ SumSeq(counts) = pos
        /\ reported = <<>>

C8_Witness ==
    /\ mode = "A" /\ err = "IndexError"
    /\ pos >= 1
    /\ pos + 1 < Len(rows)

\* the failure was raised while iterating (by the query or by a row)
RaisedInLoop == err # "none" /\ pc \in {"B_execute", "B_loop"}

\* C9: in the partition branch both files are open with their header lines
\* written before the first row is consumed, and when the run has ended,
\* by completing the pass or by a failure raised while iterating, both
\* files are closed and hold their headers, with no file left open on any
\* other error path.
C9_ScopedFiles ==
    (mode = "B") =>
        /\ (pc = "B_loop" /\ err = "none") =>
              /\ outf1.state = "open" /\ outf2.state = "open"
              /\ outf1.header = HitsHeader(K, taxa)
              /\ outf2.header = MissesHeader(taxa)
        /\ (pos > 0 \/ outf1.body # <<>> \/ outf2.body # <<>>) =>
              /\ outf1.header = HitsHeader(K, taxa)
              /\ outf2.header = MissesHeader(taxa)
        /\ Terminated => (outf1.state # "open" /\ outf2.state # "open")
        /\ (pc \in {"B_print", "done"} \/ RaisedInLoop) =>
              /\ outf1.state = "closed" /\ outf2.state = "closed"
              /\ outf1.header = HitsHeader(K, taxa)
              /\ outf2.header = MissesHeader(taxa)

C9_Witness ==
    /\ mode = "B" /\ RaisedInLoop /\ pc = "B_loop"
    /\ pos >= 1
    /\ outf1.state = "closed" /\ outf2.state = "closed"
    /\ outf1.body = <<>>

\* C10: a command line that gives both a threshold and an output path is
\* never rejected with the threshold-requires-output error, whichever
\* option comes first.
C10_OrderIndependent ==
    (HasCounts /\ HasOutput) => err # "parser.error"

====
